---- MODULE Spec2Model ----
(***************************************************************************)
(* Model of the alerting upgrade service (AlertService) of                 *)
(* pkg/controllers/user/alert/deployer/upgradeimpl.go.                     *)
(*                                                                         *)
(* AlertService.Upgrade is modelled as a sequential process that makes one *)
(* store call per step.  The resource store is the shared state; every     *)
(* store call may fail, and other actors may change the store between two  *)
(* steps of a call.                                                        *)
(*                                                                         *)
(* Strings the code takes apart are modelled by their parts:               *)
(*   - a version string such as "system-library-rancher-monitoring-0.2.0"  *)
(*     is the sequence of its "-"-separated parts;                         *)
(*   - a project id "cluster:project" and a group id "namespace:name" are  *)
(*     pairs <<namespace, name>>;                                          *)
(*   - an external id "catalog://?catalog=C&template=T&version=V" is the   *)
(*     record of its query parameters.                                     *)
(***************************************************************************)
EXTENDS Naturals, Sequences, FiniteSets, TLC

\* ------------------------------------------------------------------ bounds
\* Upgrade calls made by the caller in one behaviour.
MaxCalls == 2
\* Store calls that fail with a hard error in one behaviour.
MaxFailures == 1
\* Writes by other actors of the store in one behaviour.
MaxEnvOps == 1
\* Legacy alerts in the store, cluster and project alerts together.
MaxAlerts == 2

\* --------------------------------------------------------------- constants
\* a nil pointer or map; a non-nil one is the one-element sequence of its value
Nil == <<>>
Some(x) == <<x>>
\* a nil error
NoError == ""

defaultGroupIntervalSeconds == 180

legacyAlertmanagerNamespace == "cattle-alerting"

\* the marker Upgrade looks for in currentVersion, as parts
Marker == <<"system-library", "rancher-monitoring">>

\* the cluster this service runs for, and another one
clusterName == "local"
OtherCluster == "c-other"

\* settings.SystemMonitoringCatalogID
SystemMonitoringCatalogID ==
    [catalog |-> "system-library", template |-> "rancher-monitoring", version |-> "0.1.0"]

\* the processes that may call Upgrade; Spec has a single caller
Procs == {1, 2}
Callers == {1}

\* ------------------------------------------------------------ string codec
\* strings.Contains(s, sub), on parts: some window of s equals sub
Contains(s, sub) ==
    \E i \in 0..Len(s) :
        /\ i + Len(sub) <= Len(s)
        /\ \A j \in 1..Len(sub) : s[i + j] = sub[j]

\* common.SplitExternalID: the parts of an external id
SplitExternalID(id) ==
    [templateVersionNamespace |-> "cattle-global-data",
     catalog |-> id.catalog, template |-> id.template, version |-> id.version]

\* common.ParseExternalID: the template version id "<catalog>-<template>-<version>"
ParseExternalID(id) == <<id.catalog, id.template, id.version>>

\* ref.Parse("namespace:name")
RefParse(id) == [namespace |-> id[1], name |-> id[2]]

\* alertutil.GetGroupID(namespace, name) = "namespace:name"
GetGroupID(namespace, name) == <<namespace, name>>

\* controller.ObjectInCluster: the cluster part of Spec.ProjectName
ObjectInCluster(cluster, v) == v.Spec.ProjectName[1] = cluster

\* ------------------------------------------------------------ legacy alerts
\* names of legacy alerts, in listing order
LegacyNames == <<"high-cpu", "low-mem", "disk", "net">>

SomeTargetNode ==
    [NodeName |-> "node1", Selector |-> {}, Condition |-> "cpu",
     MemThreshold |-> 70, CPUThreshold |-> 80]
SomeTargetEvent == [EventType |-> "Warning", ResourceKind |-> "Pod"]
SomeTargetSystemService == [Condition |-> "etcd"]
SomeTargetPod ==
    [PodName |-> "pod1", Condition |-> "restarts", RestartTimes |-> 3,
     RestartIntervalSeconds |-> 300]
SomeTargetWorkload ==
    [WorkloadID |-> "deployment:web", Selector |-> {}, AvailablePercentage |-> 50]

\* v3.AlertCommonField of a legacy alert: as first written, and as edited later
InitialCommonField ==
    [DisplayName |-> "legacy alert", Severity |-> "critical",
     InitialWaitSeconds |-> 30, RepeatIntervalSeconds |-> 300,
     Recipients |-> <<"a@x.com", "b@x.com", "a@x.com">>]
EditedCommonField ==
    [DisplayName |-> "edited alert", Severity |-> "warning",
     InitialWaitSeconds |-> 60, RepeatIntervalSeconds |-> 600,
     Recipients |-> <<"c@x.com">>]
AlertCommonFields == {InitialCommonField, EditedCommonField}

\* the spec with the common fields c
WithCommonField(spec, c) ==
    [spec EXCEPT !.DisplayName = c.DisplayName, !.Severity = c.Severity,
                 !.InitialWaitSeconds = c.InitialWaitSeconds,
                 !.RepeatIntervalSeconds = c.RepeatIntervalSeconds,
                 !.Recipients = c.Recipients]

\* a legacy alert has at most one target
ClusterTargets ==
    {<<Nil, Nil, Nil>>, <<Some(SomeTargetNode), Nil, Nil>>,
     <<Nil, Some(SomeTargetEvent), Nil>>, <<Nil, Nil, Some(SomeTargetSystemService)>>}
ProjectTargets ==
    {<<Nil, Nil>>, <<Some(SomeTargetPod), Nil>>, <<Nil, Some(SomeTargetWorkload)>>}

\* v3.ClusterAlertSpec: the common fields and three optional targets
ClusterAlertSpecs ==
    { [DisplayName |-> c.DisplayName, Severity |-> c.Severity,
       InitialWaitSeconds |-> c.InitialWaitSeconds,
       RepeatIntervalSeconds |-> c.RepeatIntervalSeconds,
       Recipients |-> c.Recipients,
       TargetNode |-> t[1], TargetEvent |-> t[2], TargetSystemService |-> t[3]] :
      c \in {InitialCommonField}, t \in ClusterTargets }

\* projects: "cluster:project"
ProjectIDs == {<<clusterName, "p-1">>, <<clusterName, "p-2">>, <<OtherCluster, "p-3">>}

\* v3.ProjectAlertSpec: the common fields, the owning project and two optional targets
ProjectAlertSpecs ==
    { [DisplayName |-> c.DisplayName, Severity |-> c.Severity,
       InitialWaitSeconds |-> c.InitialWaitSeconds,
       RepeatIntervalSeconds |-> c.RepeatIntervalSeconds,
       Recipients |-> c.Recipients,
       ProjectName |-> pid,
       TargetPod |-> t[1], TargetWorkload |-> t[2]] :
      c \in {InitialCommonField}, pid \in ProjectIDs,
      t \in ProjectTargets }

\* a legacy cluster alert (v3.ClusterAlert) of the cluster's namespace
ClusterAlert(name, spec) == [Name |-> name, Namespace |-> clusterName, Spec |-> spec]

\* a legacy project alert (v3.ProjectAlert); its namespace is its project's name
ProjectAlert(name, spec) ==
    [Name |-> name, Namespace |-> spec.ProjectName[2], Spec |-> spec]

\* ------------------------------------------------------- Record Translator
\* upgradeimpl.go 182-227: the rule built from a legacy cluster alert
NewClusterRule(v) ==
    [ObjectMeta |-> [Name |-> "migrate-" \o v.Name, Namespace |-> clusterName, Labels |-> {}],
     Spec |->
       [ClusterName |-> clusterName,
        GroupName |-> GetGroupID(clusterName, "migrate-group-" \o v.Name),
        DisplayName |-> v.Spec.DisplayName,
        Severity |-> v.Spec.Severity,
        GroupWaitSeconds |-> v.Spec.InitialWaitSeconds,
        GroupIntervalSeconds |-> defaultGroupIntervalSeconds,
        RepeatIntervalSeconds |-> v.Spec.RepeatIntervalSeconds,
        NodeRule |->
          IF v.Spec.TargetNode # Nil
          THEN Some([NodeName |-> v.Spec.TargetNode[1].NodeName,
                Selector |-> v.Spec.TargetNode[1].Selector,
                Condition |-> v.Spec.TargetNode[1].Condition,
                MemThreshold |-> v.Spec.TargetNode[1].MemThreshold,
                CPUThreshold |-> v.Spec.TargetNode[1].CPUThreshold])
          ELSE Nil,
        EventRule |->
          IF v.Spec.TargetEvent # Nil
          THEN Some([EventType |-> v.Spec.TargetEvent[1].EventType,
                ResourceKind |-> v.Spec.TargetEvent[1].ResourceKind])
          ELSE Nil,
        SystemServiceRule |->
          IF v.Spec.TargetSystemService # Nil
          THEN Some([Condition |-> v.Spec.TargetSystemService[1].Condition])
          ELSE Nil,
        MetricRule |-> Nil]]

\* faulty variant of ClusterLegacyGroup: the recipients are not copied
ClusterLegacyGroupNoRecipients(v) ==
    [ObjectMeta |-> [Name |-> "migrate-group-" \o v.Name, Namespace |-> clusterName, Labels |-> {}],
     Spec |->
       [ClusterName |-> clusterName,
        DisplayName |-> "Migrate group",
        Description |-> "Migrate alert from last version",
        GroupWaitSeconds |-> v.Spec.InitialWaitSeconds,
        GroupIntervalSeconds |-> defaultGroupIntervalSeconds,
        RepeatIntervalSeconds |-> v.Spec.RepeatIntervalSeconds,
        Recipients |-> <<>>]]

\* upgradeimpl.go 245-263: the group built from a legacy cluster alert
ClusterLegacyGroup(v) ==
    [ObjectMeta |-> [Name |-> "migrate-group-" \o v.Name, Namespace |-> clusterName, Labels |-> {}],
     Spec |->
       [ClusterName |-> clusterName,
        DisplayName |-> "Migrate group",
        Description |-> "Migrate alert from last version",
        GroupWaitSeconds |-> v.Spec.InitialWaitSeconds,
        GroupIntervalSeconds |-> defaultGroupIntervalSeconds,
        RepeatIntervalSeconds |-> v.Spec.RepeatIntervalSeconds,
        Recipients |-> v.Spec.Recipients]]

\* upgradeimpl.go 287-329: the rule built from a legacy project alert of project projectID
NewProjectRule(projectID, v) ==
    [ObjectMeta |-> [Name |-> "migrate-rule-" \o v.Name,
                     Namespace |-> RefParse(projectID).name, Labels |-> {}],
     Spec |->
       [ProjectName |-> projectID,
        GroupName |-> GetGroupID(RefParse(projectID).name, "migrate-group-" \o v.Name),
        DisplayName |-> v.Spec.DisplayName,
        Severity |-> v.Spec.Severity,
        GroupWaitSeconds |-> v.Spec.InitialWaitSeconds,
        GroupIntervalSeconds |-> defaultGroupIntervalSeconds,
        RepeatIntervalSeconds |-> v.Spec.RepeatIntervalSeconds,
        PodRule |->
          IF v.Spec.TargetPod # Nil
          THEN Some([PodName |-> v.Spec.TargetPod[1].PodName,
                Condition |-> v.Spec.TargetPod[1].Condition,
                RestartTimes |-> v.Spec.TargetPod[1].RestartTimes,
                RestartIntervalSeconds |-> v.Spec.TargetPod[1].RestartIntervalSeconds])
          ELSE Nil,
        WorkloadRule |->
          IF v.Spec.TargetWorkload # Nil
          THEN Some([WorkloadID |-> v.Spec.TargetWorkload[1].WorkloadID,
                Selector |-> v.Spec.TargetWorkload[1].Selector,
                AvailablePercentage |-> v.Spec.TargetWorkload[1].AvailablePercentage])
          ELSE Nil,
        MetricRule |-> Nil]]

\* faulty variant of ProjectLegacyGroup: the group interval is taken from the legacy
\* alert's repeat interval
ProjectLegacyGroupLegacyInterval(projectID, v) ==
    [ObjectMeta |-> [Name |-> "migrate-group-" \o v.Name,
                     Namespace |-> RefParse(projectID).name, Labels |-> {}],
     Spec |->
       [ProjectName |-> projectID,
        DisplayName |-> "Migrate group",
        Description |-> "Migrate alert from last version",
        GroupWaitSeconds |-> v.Spec.InitialWaitSeconds,
        GroupIntervalSeconds |-> v.Spec.RepeatIntervalSeconds,
        RepeatIntervalSeconds |-> v.Spec.RepeatIntervalSeconds,
        Recipients |-> v.Spec.Recipients]]

\* upgradeimpl.go 348-366: the group built from a legacy project alert
ProjectLegacyGroup(projectID, v) ==
    [ObjectMeta |-> [Name |-> "migrate-group-" \o v.Name,
                     Namespace |-> RefParse(projectID).name, Labels |-> {}],
     Spec |->
       [ProjectName |-> projectID,
        DisplayName |-> "Migrate group",
        Description |-> "Migrate alert from last version",
        GroupWaitSeconds |-> v.Spec.InitialWaitSeconds,
        GroupIntervalSeconds |-> defaultGroupIntervalSeconds,
        RepeatIntervalSeconds |-> v.Spec.RepeatIntervalSeconds,
        Recipients |-> v.Spec.Recipients]]

\* the key of a record in a store of namespaced records
KeyOf(obj) == <<obj.ObjectMeta.Namespace, obj.ObjectMeta.Name>>

\* a store with the record obj written under its key
Put(store, obj) ==
    [k \in DOMAIN store \cup {KeyOf(obj)} |-> IF k = KeyOf(obj) THEN obj ELSE store[k]]

\* a store without the key k
Remove(store, k) == [j \in DOMAIN store \ {k} |-> store[j]]

\* ------------------------------------------------------------------- state
VARIABLES
    \* the resource store
    oldClusterAlerts,    \* legacy cluster alerts of the cluster, in listing order
    oldProjectAlerts,    \* legacy project alerts of all namespaces, in listing order
    clusterAlertRules,   \* key -> v3.ClusterAlertRule
    clusterAlertGroups,  \* key -> v3.ClusterAlertGroup
    projectAlertRules,   \* key -> v3.ProjectAlertRule
    projectAlertGroups,  \* key -> v3.ProjectAlertGroup
    namespaces,          \* names of the namespaces that exist
    apps,                \* key -> projectv3.App
    templates,           \* template id -> v3.CatalogTemplate
    \* the calls of Upgrade
    pc,                  \* per process: the step Upgrade is at
    frame,               \* per process: the local variables of the call
    result,              \* per process: what the last call returned
    ops,                 \* per process: the store calls made by the current or last call
    \* counters that bound a behaviour
    calls, failures, envOps,
    \* history, for the properties
    atCall,              \* per process: the counters and the groups when its call started,
                         \* and whether its previous call updated the application
    migrations           \* one record per migration run that returned nil

storeVars ==
    <<oldClusterAlerts, oldProjectAlerts, clusterAlertRules, clusterAlertGroups,
      projectAlertRules, projectAlertGroups, namespaces, apps, templates>>
ruleVars == <<clusterAlertRules, clusterAlertGroups, projectAlertRules, projectAlertGroups>>
legacyVars == <<oldClusterAlerts, oldProjectAlerts>>
boundVars == <<calls, failures, envOps>>
histVars == <<atCall, migrations>>
vars == <<storeVars, pc, frame, result, ops, boundVars, histVars>>

\* the local variables of a call that has not started
EmptyFrame ==
    [currentVersion |-> <<>>, newExternalID |-> Nil, newVersion |-> <<>>,
     items |-> <<>>, i |-> 0,
     oldProjectAlertGroup |-> <<>>, pending |-> {}, projectID |-> <<>>,
     oldRule |-> Nil, systemProject |-> "", app |-> Nil, newApp |-> Nil,
     cluster |-> Nil, systemCatalog |-> Nil]

NoResult == [version |-> <<>>, err |-> NoError, panic |-> FALSE]

\* the currentVersion arguments a caller passes
PreviousVersions ==
    {<<"0.0.1">>, <<"system-library", "rancher-monitoring", "0.0.1">>}

DefaultVersions == {"0.2.0"}

systemProjectName == "p-system"
\* monitorutil.ClusterAlertManagerInfo()
appName == "cluster-alerting"
templateID == SystemMonitoringCatalogID.catalog \o "-" \o SystemMonitoringCatalogID.template

\* the external id of a version of the system monitoring template
ExternalIDOf(version) ==
    [catalog |-> SystemMonitoringCatalogID.catalog,
     template |-> SystemMonitoringCatalogID.template, version |-> version]

\* the deployed application record, with the answers a
AppOf(externalID, a) ==
    [ObjectMeta |-> [Name |-> appName, Namespace |-> systemProjectName, Labels |-> {}],
     Spec |-> [ExternalID |-> externalID, Answers |-> a]]

\* answers of the deployed application: a nil map, or a map
AnswerMaps ==
    {Nil,
     Some([k \in {"exporter.enabled", "operator.enabled"} |-> "true"])}

InitialApps ==
    {<<>>} \cup
    { [k \in {<<systemProjectName, appName>>} |->
          AppOf(ExternalIDOf(SystemMonitoringCatalogID.version), a)] : a \in AnswerMaps }

\* the lists of n legacy cluster alerts, named in listing order
ClusterAlertLists(n) ==
    { [j \in 1..n |-> ClusterAlert(LegacyNames[j], f[j])] : f \in [1..n -> ClusterAlertSpecs] }

\* the lists of n legacy project alerts, named in listing order
ProjectAlertLists(n) ==
    { [j \in 1..n |-> ProjectAlert(LegacyNames[j], f[j])] : f \in [1..n -> ProjectAlertSpecs] }

Init ==
    /\ \E nc \in 0..MaxAlerts : \E np \in 0..(MaxAlerts - nc) :
          /\ oldClusterAlerts \in ClusterAlertLists(nc)
          /\ oldProjectAlerts \in ProjectAlertLists(np)
    /\ clusterAlertRules = <<>>
    /\ clusterAlertGroups = <<>>
    /\ projectAlertRules = <<>>
    /\ projectAlertGroups = <<>>
    /\ namespaces = {legacyAlertmanagerNamespace}
    /\ apps \in InitialApps
    /\ templates \in [{templateID} -> [DefaultVersion : DefaultVersions]]
    /\ pc = [p \in Procs |-> "idle"]
    /\ frame = [p \in Procs |-> EmptyFrame]
    /\ result = [p \in Procs |-> NoResult]
    /\ ops = [p \in Procs |-> <<>>]
    /\ calls = 0
    /\ failures = 0
    /\ envOps = 0
    /\ atCall = [p \in Procs |-> [failures |-> 0, envOps |-> 0, groups |-> {},
                                  updated |-> FALSE]]
    /\ migrations = <<>>

\* ---------------------------------------------------------------- helpers
\* the call of p has made the store call of its step and goes to step next
\* with the locals f
Step(p, next, f) ==
    /\ pc' = [pc EXCEPT ![p] = next]
    /\ frame' = [frame EXCEPT ![p] = f]
    /\ ops' = [ops EXCEPT ![p] = Append(@, pc[p])]
    /\ result' = result

\* the call of p ends with r, having made the store call of its step; frame keeps
\* the locals f the call ended with
Return(p, r, f) ==
    /\ pc' = [pc EXCEPT ![p] = "done"]
    /\ frame' = [frame EXCEPT ![p] = f]
    /\ ops' = [ops EXCEPT ![p] = Append(@, pc[p])]
    /\ result' = [result EXCEPT ![p] = r]

\* return newVersion, nil
ReturnVersion(p, f) ==
    Return(p, [version |-> f.newVersion, err |-> NoError, panic |-> FALSE], f)

\* return "", err
ReturnError(p, err, f) == Return(p, [version |-> <<>>, err |-> err, panic |-> FALSE], f)

\* a nil map write or a nil dereference: the call ends in a panic
Panic(p, f) == Return(p, [version |-> <<>>, err |-> NoError, panic |-> TRUE], f)

\* ----------------------------------------------------------------- Upgrade
\* the caller invokes Upgrade(currentVersion)
Call(p) ==
    /\ pc[p] \in {"idle", "done"}
    /\ calls < MaxCalls
    /\ \E cv \in PreviousVersions :
          frame' = [frame EXCEPT ![p] = [EmptyFrame EXCEPT !.currentVersion = cv]]
    /\ pc' = [pc EXCEPT ![p] = "getTemplate"]
    /\ result' = [result EXCEPT ![p] = NoResult]
    /\ ops' = [ops EXCEPT ![p] = <<>>]
    /\ calls' = calls + 1
    /\ atCall' = [atCall EXCEPT ![p] =
                     [failures |-> failures, envOps |-> envOps,
                      groups |-> DOMAIN clusterAlertGroups \cup DOMAIN projectAlertGroups,
                      updated |-> /\ pc[p] = "done"
                                  /\ result[p].err = NoError
                                  /\ ~result[p].panic
                                  /\ \E j \in 1..Len(ops[p]) : ops[p][j] = "updateApp"]]
    /\ UNCHANGED <<storeVars, failures, envOps, migrations>>

\* faulty variant of GetTemplate: the migration runs whatever currentVersion is
GetTemplateAlwaysMigrate(p) ==
    /\ pc[p] = "getTemplate"
    /\ LET id == SplitExternalID(SystemMonitoringCatalogID)
           tid == id.catalog \o "-" \o id.template
       IN  IF tid \notin DOMAIN templates
           THEN ReturnError(p, "get template failed", frame[p])
           ELSE LET newExternalID == [catalog |-> id.catalog, template |-> id.template,
                                      version |-> templates[tid].DefaultVersion]
                    f == [frame[p] EXCEPT !.newExternalID = Some(newExternalID),
                                          !.newVersion = ParseExternalID(newExternalID)]
                IN  Step(p, "listClusterAlerts", f)
    /\ UNCHANGED <<storeVars, boundVars, histVars>>

\* faulty variant of GetTemplate: the new external id takes the version of the setting,
\* not the template's default version
GetTemplateSettingVersion(p) ==
    /\ pc[p] = "getTemplate"
    /\ LET id == SplitExternalID(SystemMonitoringCatalogID)
           tid == id.catalog \o "-" \o id.template
       IN  IF tid \notin DOMAIN templates
           THEN ReturnError(p, "get template failed", frame[p])
           ELSE LET newExternalID == [catalog |-> id.catalog, template |-> id.template,
                                      version |-> id.version]
                    f == [frame[p] EXCEPT !.newExternalID = Some(newExternalID),
                                          !.newVersion = ParseExternalID(newExternalID)]
                IN  IF ~Contains(frame[p].currentVersion, Marker)
                    THEN Step(p, "listClusterAlerts", f)
                    ELSE Step(p, "listSystemProjects", f)
    /\ UNCHANGED <<storeVars, boundVars, histVars>>

\* upgradeimpl.go 92-123: resolve the target version, decide whether to migrate
GetTemplate(p) ==
    /\ pc[p] = "getTemplate"
    /\ LET id == SplitExternalID(SystemMonitoringCatalogID)
           tid == id.catalog \o "-" \o id.template
       IN  IF tid \notin DOMAIN templates
           THEN ReturnError(p, "get template failed", frame[p])
           ELSE LET newExternalID == [catalog |-> id.catalog, template |-> id.template,
                                      version |-> templates[tid].DefaultVersion]
                    f == [frame[p] EXCEPT !.newExternalID = Some(newExternalID),
                                          !.newVersion = ParseExternalID(newExternalID)]
                IN  IF ~Contains(frame[p].currentVersion, Marker)
                    THEN Step(p, "listClusterAlerts", f)
                    ELSE Step(p, "listSystemProjects", f)
    /\ UNCHANGED <<storeVars, boundVars, histVars>>

\* ------------------------------------------------ migrateLegacyClusterAlert
\* faulty variant of ListClusterAlerts: with no legacy cluster alert the call goes
\* to the cleanup at once, the project alerts not migrated
ListClusterAlertsSkipsProjects(p) ==
    /\ pc[p] = "listClusterAlerts"
    /\ LET f == [frame[p] EXCEPT !.items = oldClusterAlerts, !.i = 1]
       IN  IF Len(oldClusterAlerts) = 0
           THEN Step(p, "removeLegacyAlerting", f)
           ELSE Step(p, "getClusterRule", f)
    /\ UNCHANGED <<storeVars, boundVars, histVars>>

\* upgradeimpl.go 177-181
ListClusterAlerts(p) ==
    /\ pc[p] = "listClusterAlerts"
    /\ LET f == [frame[p] EXCEPT !.items = oldClusterAlerts, !.i = 1]
       IN  IF Len(oldClusterAlerts) = 0
           THEN Step(p, "listProjectAlerts", f)
           ELSE Step(p, "getClusterRule", f)
    /\ UNCHANGED <<storeVars, boundVars, histVars>>

\* faulty variant of GetClusterRule: a rule that is found is taken for a failed get
GetClusterRuleFoundIsError(p) ==
    /\ pc[p] = "getClusterRule"
    /\ LET newClusterRule == NewClusterRule(frame[p].items[frame[p].i])
           k == KeyOf(newClusterRule)
       IN  IF k \in DOMAIN clusterAlertRules
           THEN ReturnError(p, "get alert rule failed", frame[p])
           ELSE Step(p, "createClusterRule", [frame[p] EXCEPT !.oldRule = Nil])
    /\ UNCHANGED <<storeVars, boundVars, histVars>>

\* upgradeimpl.go 229-233, 238
GetClusterRule(p) ==
    /\ pc[p] = "getClusterRule"
    /\ LET newClusterRule == NewClusterRule(frame[p].items[frame[p].i])
           k == KeyOf(newClusterRule)
       IN  IF k \in DOMAIN clusterAlertRules
           THEN Step(p, "updateClusterRule", [frame[p] EXCEPT !.oldRule = Some(clusterAlertRules[k])])
           ELSE Step(p, "createClusterRule", [frame[p] EXCEPT !.oldRule = Nil])
    /\ UNCHANGED <<storeVars, boundVars, histVars>>

\* faulty variant of CreateClusterRule: an already-exists outcome is an error
CreateClusterRuleExistsIsError(p) ==
    /\ pc[p] = "createClusterRule"
    /\ LET newClusterRule == NewClusterRule(frame[p].items[frame[p].i])
       IN  IF KeyOf(newClusterRule) \in DOMAIN clusterAlertRules
           THEN /\ clusterAlertRules' = clusterAlertRules
                /\ ReturnError(p, "create alert rule failed", frame[p])
           ELSE /\ clusterAlertRules' = Put(clusterAlertRules, newClusterRule)
                /\ Step(p, "createClusterGroup", frame[p])
    /\ UNCHANGED <<legacyVars, clusterAlertGroups, projectAlertRules, projectAlertGroups,
                   namespaces, apps, templates, boundVars, histVars>>

\* upgradeimpl.go 235-237: create, an already-exists outcome is no error
CreateClusterRule(p) ==
    /\ pc[p] = "createClusterRule"
    /\ LET newClusterRule == NewClusterRule(frame[p].items[frame[p].i])
       IN  clusterAlertRules' =
             IF KeyOf(newClusterRule) \in DOMAIN clusterAlertRules
             THEN clusterAlertRules
             ELSE Put(clusterAlertRules, newClusterRule)
    /\ Step(p, "createClusterGroup", frame[p])
    /\ UNCHANGED <<legacyVars, clusterAlertGroups, projectAlertRules, projectAlertGroups,
                   namespaces, apps, templates, boundVars, histVars>>

\* faulty variant of UpdateClusterRule: the update keeps a target of the fetched rule where
\* the new Spec has none
UpdateClusterRuleMerge(p) ==
    /\ pc[p] = "updateClusterRule"
    /\ LET newClusterRule == NewClusterRule(frame[p].items[frame[p].i])
           old == frame[p].oldRule[1]
           Keep(new, was) == IF new # Nil THEN new ELSE was
           updatedClusterRule ==
               [old EXCEPT !.Spec =
                   [newClusterRule.Spec EXCEPT
                      !.NodeRule = Keep(@, old.Spec.NodeRule),
                      !.EventRule = Keep(@, old.Spec.EventRule),
                      !.SystemServiceRule = Keep(@, old.Spec.SystemServiceRule)]]
       IN  IF KeyOf(updatedClusterRule) \in DOMAIN clusterAlertRules
           THEN /\ clusterAlertRules' = Put(clusterAlertRules, updatedClusterRule)
                /\ Step(p, "createClusterGroup", [frame[p] EXCEPT !.oldRule = Nil])
           ELSE /\ clusterAlertRules' = clusterAlertRules
                /\ ReturnError(p, "update alert rule failed", frame[p])
    /\ UNCHANGED <<legacyVars, clusterAlertGroups, projectAlertRules, projectAlertGroups,
                   namespaces, apps, templates, boundVars, histVars>>

\* upgradeimpl.go 239-243: the fetched rule with the new Spec
UpdateClusterRule(p) ==
    /\ pc[p] = "updateClusterRule"
    /\ LET newClusterRule == NewClusterRule(frame[p].items[frame[p].i])
           updatedClusterRule == [frame[p].oldRule[1] EXCEPT !.Spec = newClusterRule.Spec]
       IN  IF KeyOf(updatedClusterRule) \in DOMAIN clusterAlertRules
           THEN /\ clusterAlertRules' = Put(clusterAlertRules, updatedClusterRule)
                /\ Step(p, "createClusterGroup", [frame[p] EXCEPT !.oldRule = Nil])
           ELSE /\ clusterAlertRules' = clusterAlertRules
                /\ ReturnError(p, "update alert rule failed", frame[p])
    /\ UNCHANGED <<legacyVars, clusterAlertGroups, projectAlertRules, projectAlertGroups,
                   namespaces, apps, templates, boundVars, histVars>>

\* faulty variant of CreateClusterGroup: an already-exists outcome is an error
CreateClusterGroupExistsIsError(p) ==
    /\ pc[p] = "createClusterGroup"
    /\ LET legacyGroup == ClusterLegacyGroup(frame[p].items[frame[p].i])
       IN  IF KeyOf(legacyGroup) \in DOMAIN clusterAlertGroups
           THEN /\ clusterAlertGroups' = clusterAlertGroups
                /\ ReturnError(p, "create alert group failed", frame[p])
           ELSE /\ clusterAlertGroups' = Put(clusterAlertGroups, legacyGroup)
                /\ IF frame[p].i < Len(frame[p].items)
                   THEN Step(p, "getClusterRule", [frame[p] EXCEPT !.i = @ + 1])
                   ELSE Step(p, "listProjectAlerts",
                             [frame[p] EXCEPT !.items = <<>>, !.i = 0])
    /\ UNCHANGED <<legacyVars, clusterAlertRules, projectAlertRules, projectAlertGroups,
                   namespaces, apps, templates, boundVars, histVars>>

\* faulty variant of CreateClusterGroup: a group that exists is overwritten
CreateClusterGroupOverwrites(p) ==
    /\ pc[p] = "createClusterGroup"
    /\ clusterAlertGroups' =
          Put(clusterAlertGroups, ClusterLegacyGroup(frame[p].items[frame[p].i]))
    /\ IF frame[p].i < Len(frame[p].items)
       THEN Step(p, "getClusterRule", [frame[p] EXCEPT !.i = @ + 1])
       ELSE Step(p, "listProjectAlerts", [frame[p] EXCEPT !.items = <<>>, !.i = 0])
    /\ UNCHANGED <<legacyVars, clusterAlertRules, projectAlertRules, projectAlertGroups,
                   namespaces, apps, templates, boundVars, histVars>>

\* upgradeimpl.go 245-269: create the group, an already-exists outcome is no error;
\* then the next legacy alert
CreateClusterGroup(p) ==
    /\ pc[p] = "createClusterGroup"
    /\ LET legacyGroup == ClusterLegacyGroup(frame[p].items[frame[p].i])
       IN  clusterAlertGroups' =
             IF KeyOf(legacyGroup) \in DOMAIN clusterAlertGroups
             THEN clusterAlertGroups
             ELSE Put(clusterAlertGroups, legacyGroup)
    /\ IF frame[p].i < Len(frame[p].items)
       THEN Step(p, "getClusterRule", [frame[p] EXCEPT !.i = @ + 1])
       ELSE Step(p, "listProjectAlerts", [frame[p] EXCEPT !.items = <<>>, !.i = 0])
    /\ UNCHANGED <<legacyVars, clusterAlertRules, projectAlertRules, projectAlertGroups,
                   namespaces, apps, templates, boundVars, histVars>>

\* ------------------------------------------------ migrateLegacyProjectAlert
\* the locals of p at the first alert of project pid, the projects rest still to visit
AtProject(p, group, pid, rest) ==
    [frame[p] EXCEPT !.oldProjectAlertGroup = group, !.pending = rest,
                     !.projectID = pid, !.items = group[pid], !.i = 1, !.oldRule = Nil]

\* history: when the step of p ends the migration with nil, record the rules and
\* groups the run leaves and the counters (of the first MaxCalls runs)
Migrated(p) ==
    migrations' =
        IF pc'[p] = "removeLegacyAlerting" /\ Len(migrations) < MaxCalls
        THEN Append(migrations,
                    [rules |-> <<clusterAlertRules', clusterAlertGroups',
                                 projectAlertRules', projectAlertGroups'>>,
                     legacy |-> <<oldClusterAlerts, oldProjectAlerts>>,
                     atCall |-> atCall[p],
                     failures |-> failures, envOps |-> envOps])
        ELSE migrations

\* faulty variant of ListProjectAlerts: the alerts of other clusters are not left out
ListProjectAlertsNoFilter(p) ==
    /\ pc[p] = "listProjectAlerts"
    /\ LET inCluster == oldProjectAlerts
           pids == {inCluster[j].Spec.ProjectName : j \in 1..Len(inCluster)}
           group == [pid \in pids |->
                        SelectSeq(inCluster, LAMBDA v : v.Spec.ProjectName = pid)]
       IN  IF pids = {}
           THEN Step(p, "removeLegacyAlerting", frame[p])
           ELSE \E pid \in pids :
                   Step(p, "getProjectRule", AtProject(p, group, pid, pids \ {pid}))
    /\ UNCHANGED <<storeVars, boundVars, atCall>>
    /\ Migrated(p)

\* upgradeimpl.go 274-289: list, keep the alerts of this cluster, group them by
\* project; the range over the map visits the projects in any order
ListProjectAlerts(p) ==
    /\ pc[p] = "listProjectAlerts"
    /\ LET inCluster == SelectSeq(oldProjectAlerts, LAMBDA v : ObjectInCluster(clusterName, v))
           pids == {inCluster[j].Spec.ProjectName : j \in 1..Len(inCluster)}
           group == [pid \in pids |->
                        SelectSeq(inCluster, LAMBDA v : v.Spec.ProjectName = pid)]
       IN  IF pids = {}
           THEN Step(p, "removeLegacyAlerting", frame[p])
           ELSE \E pid \in pids :
                   Step(p, "getProjectRule", AtProject(p, group, pid, pids \ {pid}))
    /\ UNCHANGED <<storeVars, boundVars, atCall>>
    /\ Migrated(p)

\* upgradeimpl.go 331-335, 340
GetProjectRule(p) ==
    /\ pc[p] = "getProjectRule"
    /\ LET newProjectRule == NewProjectRule(frame[p].projectID, frame[p].items[frame[p].i])
           k == KeyOf(newProjectRule)
       IN  IF k \in DOMAIN projectAlertRules
           THEN Step(p, "updateProjectRule", [frame[p] EXCEPT !.oldRule = Some(projectAlertRules[k])])
           ELSE Step(p, "createProjectRule", [frame[p] EXCEPT !.oldRule = Nil])
    /\ UNCHANGED <<storeVars, boundVars, histVars>>

\* upgradeimpl.go 337-339: create, an already-exists outcome is no error
CreateProjectRule(p) ==
    /\ pc[p] = "createProjectRule"
    /\ LET newProjectRule == NewProjectRule(frame[p].projectID, frame[p].items[frame[p].i])
       IN  projectAlertRules' =
             IF KeyOf(newProjectRule) \in DOMAIN projectAlertRules
             THEN projectAlertRules
             ELSE Put(projectAlertRules, newProjectRule)
    /\ Step(p, "createProjectGroup", frame[p])
    /\ UNCHANGED <<legacyVars, clusterAlertRules, clusterAlertGroups, projectAlertGroups,
                   namespaces, apps, templates, boundVars, histVars>>

\* faulty variant of UpdateProjectRule: the new rule is written as built, without the
\* metadata of the fetched rule
UpdateProjectRuleReplaces(p) ==
    /\ pc[p] = "updateProjectRule"
    /\ LET newProjectRule == NewProjectRule(frame[p].projectID, frame[p].items[frame[p].i])
       IN  IF KeyOf(newProjectRule) \in DOMAIN projectAlertRules
           THEN /\ projectAlertRules' = Put(projectAlertRules, newProjectRule)
                /\ Step(p, "createProjectGroup", [frame[p] EXCEPT !.oldRule = Nil])
           ELSE /\ projectAlertRules' = projectAlertRules
                /\ ReturnError(p, "update alert rule failed", frame[p])
    /\ UNCHANGED <<legacyVars, clusterAlertRules, clusterAlertGroups, projectAlertGroups,
                   namespaces, apps, templates, boundVars, histVars>>

\* upgradeimpl.go 341-345: the fetched rule with the new Spec
UpdateProjectRule(p) ==
    /\ pc[p] = "updateProjectRule"
    /\ LET newProjectRule == NewProjectRule(frame[p].projectID, frame[p].items[frame[p].i])
           updatedProjectRule == [frame[p].oldRule[1] EXCEPT !.Spec = newProjectRule.Spec]
       IN  IF KeyOf(updatedProjectRule) \in DOMAIN projectAlertRules
           THEN /\ projectAlertRules' = Put(projectAlertRules, updatedProjectRule)
                /\ Step(p, "createProjectGroup", [frame[p] EXCEPT !.oldRule = Nil])
           ELSE /\ projectAlertRules' = projectAlertRules
                /\ ReturnError(p, "update alert rule failed", frame[p])
    /\ UNCHANGED <<legacyVars, clusterAlertRules, clusterAlertGroups, projectAlertGroups,
                   namespaces, apps, templates, boundVars, histVars>>

\* upgradeimpl.go 348-373: create the group, an already-exists outcome is no error;
\* then the next alert of the project, or the next project
CreateProjectGroup(p) ==
    /\ pc[p] = "createProjectGroup"
    /\ LET legacyGroup == ProjectLegacyGroup(frame[p].projectID, frame[p].items[frame[p].i])
       IN  projectAlertGroups' =
             IF KeyOf(legacyGroup) \in DOMAIN projectAlertGroups
             THEN projectAlertGroups
             ELSE Put(projectAlertGroups, legacyGroup)
    /\ IF frame[p].i < Len(frame[p].items)
       THEN Step(p, "getProjectRule", [frame[p] EXCEPT !.i = @ + 1])
       ELSE IF frame[p].pending # {}
       THEN \E pid \in frame[p].pending :
               Step(p, "getProjectRule",
                    AtProject(p, frame[p].oldProjectAlertGroup, pid, frame[p].pending \ {pid}))
       ELSE Step(p, "removeLegacyAlerting",
                 [frame[p] EXCEPT !.oldProjectAlertGroup = <<>>, !.projectID = <<>>,
                                  !.items = <<>>, !.i = 0])
    /\ UNCHANGED <<legacyVars, clusterAlertRules, clusterAlertGroups, projectAlertRules,
                   namespaces, apps, templates, boundVars, atCall>>
    /\ Migrated(p)

\* ----------------------------------------------------- removeLegacyAlerting
\* faulty variant of RemoveLegacyAlerting: a not-found outcome of the delete is an
\* error
RemoveLegacyAlertingNotFoundIsError(p) ==
    /\ pc[p] = "removeLegacyAlerting"
    /\ namespaces' = namespaces \ {legacyAlertmanagerNamespace}
    /\ IF legacyAlertmanagerNamespace \in namespaces
       THEN Step(p, "listSystemProjects", frame[p])
       ELSE ReturnError(p, "failed to remove legacy alerting namespace when upgrade",
                        frame[p])
    /\ UNCHANGED <<legacyVars, ruleVars, apps, templates, boundVars, histVars>>

\* upgradeimpl.go 377-384: delete the legacy namespace, a not-found outcome is no error
RemoveLegacyAlerting(p) ==
    /\ pc[p] = "removeLegacyAlerting"
    /\ namespaces' = namespaces \ {legacyAlertmanagerNamespace}
    /\ Step(p, "listSystemProjects", frame[p])
    /\ UNCHANGED <<legacyVars, ruleVars, apps, templates, boundVars, histVars>>

\* ------------------------------------------------------- upgrade the old app
\* upgradeimpl.go 126-138: the system projects the lister holds
ListSystemProjects(p) ==
    /\ pc[p] = "listSystemProjects"
    /\ \E defaultSystemProjects \in {<<>>, <<systemProjectName>>} :
          IF Len(defaultSystemProjects) = 0
          THEN ReturnError(p, "get system project failed", frame[p])
          ELSE Step(p, "getApp", [frame[p] EXCEPT !.systemProject = defaultSystemProjects[1]])
    /\ UNCHANGED <<storeVars, boundVars, histVars>>

\* faulty variant of NewApp: the copy carries the operator.enabled answer alone
NewAppOnlyOperator(app, newExternalID) ==
    [app EXCEPT !.Spec.ExternalID = newExternalID,
                !.Spec.Answers = Some([k \in {"operator.enabled"} |-> "false"])]

\* upgradeimpl.go 146-148: the copy of app with the new external id and
\* operator.enabled = "false"
NewApp(app, newExternalID) ==
    [app EXCEPT !.Spec.ExternalID = newExternalID,
                !.Spec.Answers =
                    Some([k \in DOMAIN app.Spec.Answers[1] \cup {"operator.enabled"} |->
                             IF k = "operator.enabled" THEN "false"
                             ELSE app.Spec.Answers[1][k]])]

\* faulty variant of GetApp: no comparison of the copy with the fetched record
GetAppNoGuard(p) ==
    /\ pc[p] = "getApp"
    /\ LET k == <<frame[p].systemProject, appName>>
       IN  IF k \notin DOMAIN apps
           THEN ReturnVersion(p, frame[p])
           ELSE LET app == apps[k]
                IN  IF app.Spec.Answers = Nil
                    THEN Panic(p, [frame[p] EXCEPT !.app = Some(app)])
                    ELSE Step(p, "getCluster",
                              [frame[p] EXCEPT
                                 !.app = Some(app),
                                 !.newApp = Some(NewApp(app, frame[p].newExternalID[1]))])
    /\ UNCHANGED <<storeVars, boundVars, histVars>>

\* faulty variant of GetApp: a not-found outcome of the get is an error like any other
GetAppNotFoundIsError(p) ==
    /\ pc[p] = "getApp"
    /\ LET k == <<frame[p].systemProject, appName>>
       IN  IF k \notin DOMAIN apps
           THEN ReturnError(p, "get app failed", frame[p])
           ELSE LET app == apps[k]
                IN  IF app.Spec.Answers = Nil
                    THEN Panic(p, [frame[p] EXCEPT !.app = Some(app)])
                    ELSE LET newApp == NewApp(app, frame[p].newExternalID[1])
                             f == [frame[p] EXCEPT !.app = Some(app), !.newApp = Some(newApp)]
                         IN  IF newApp = app
                             THEN ReturnVersion(p, f)
                             ELSE Step(p, "getCluster", f)
    /\ UNCHANGED <<storeVars, boundVars, histVars>>

\* faulty variant of GetApp: the changed copy is written before the readiness is
\* looked at
GetAppUpdatesEarly(p) ==
    /\ pc[p] = "getApp"
    /\ LET k == <<frame[p].systemProject, appName>>
       IN  IF k \notin DOMAIN apps
           THEN apps' = apps /\ ReturnVersion(p, frame[p])
           ELSE LET app == apps[k]
                IN  IF app.Spec.Answers = Nil
                    THEN apps' = apps /\ Panic(p, [frame[p] EXCEPT !.app = Some(app)])
                    ELSE LET newApp == NewApp(app, frame[p].newExternalID[1])
                             f == [frame[p] EXCEPT !.app = Some(app), !.newApp = Some(newApp)]
                         IN  IF newApp = app
                             THEN apps' = apps /\ ReturnVersion(p, f)
                             ELSE apps' = Put(apps, newApp) /\ Step(p, "getCluster", f)
    /\ UNCHANGED <<legacyVars, ruleVars, namespaces, templates, boundVars, histVars>>

\* upgradeimpl.go 139-150, 173: fetch the app; nothing to do when it is missing or
\* already as desired; writing into a nil Answers map panics
GetApp(p) ==
    /\ pc[p] = "getApp"
    /\ LET k == <<frame[p].systemProject, appName>>
       IN  IF k \notin DOMAIN apps
           THEN ReturnVersion(p, frame[p])
           ELSE LET app == apps[k]
                IN  IF app.Spec.Answers = Nil
                    THEN Panic(p, [frame[p] EXCEPT !.app = Some(app)])
                    ELSE LET newApp == NewApp(app, frame[p].newExternalID[1])
                             f == [frame[p] EXCEPT !.app = Some(app), !.newApp = Some(newApp)]
                         IN  IF newApp = app
                             THEN ReturnVersion(p, f)
                             ELSE Step(p, "getCluster", f)
    /\ UNCHANGED <<storeVars, boundVars, histVars>>

\* v3.ClusterConditionReady.IsTrue(cluster)
ClusterReady(cluster) == cluster.Ready

\* faulty variant of CatalogReady: the disk-cached condition is not looked at
CatalogReadyNoDiskCached(catalog) == catalog.Upgraded /\ catalog.Refreshed

\* upgradeimpl.go 165: the three catalog conditions
CatalogReady(catalog) == catalog.Upgraded /\ catalog.Refreshed /\ catalog.DiskCached

\* faulty variant of GetCluster: the ready condition is not looked at
GetClusterNoCheck(p) ==
    /\ pc[p] = "getCluster"
    /\ \E cluster \in [Ready : BOOLEAN] :
          Step(p, "getCatalog", [frame[p] EXCEPT !.cluster = Some(cluster)])
    /\ UNCHANGED <<storeVars, boundVars, histVars>>

\* upgradeimpl.go 152-158: the cluster the lister holds, and its ready condition
GetCluster(p) ==
    /\ pc[p] = "getCluster"
    /\ \E cluster \in [Ready : BOOLEAN] :
          LET f == [frame[p] EXCEPT !.cluster = Some(cluster)]
          IN  IF ~ClusterReady(cluster)
              THEN ReturnError(p, "cluster not ready", f)
              ELSE Step(p, "getCatalog", f)
    /\ UNCHANGED <<storeVars, boundVars, histVars>>

\* upgradeimpl.go 160-167: the catalog the lister holds, and its conditions
GetCatalog(p) ==
    /\ pc[p] = "getCatalog"
    /\ \E systemCatalog \in [Upgraded : BOOLEAN, Refreshed : BOOLEAN, DiskCached : BOOLEAN] :
          LET f == [frame[p] EXCEPT !.systemCatalog = Some(systemCatalog)]
          IN  IF ~CatalogReady(systemCatalog)
              THEN ReturnError(p, "catalog not ready", f)
              ELSE Step(p, "updateApp", f)
    /\ UNCHANGED <<storeVars, boundVars, histVars>>

\* upgradeimpl.go 169-173
UpdateApp(p) ==
    /\ pc[p] = "updateApp"
    /\ IF KeyOf(frame[p].newApp[1]) \in DOMAIN apps
       THEN /\ apps' = Put(apps, frame[p].newApp[1])
            /\ ReturnVersion(p, frame[p])
       ELSE /\ apps' = apps
            /\ ReturnError(p, "update app failed", frame[p])
    /\ UNCHANGED <<legacyVars, ruleVars, namespaces, templates, boundVars, histVars>>

\* ----------------------------------------------------------- store failures
\* the error Upgrade returns when the store call of a step fails with a hard error
\* (any error but not-found on a get or a delete, or already-exists on a create)
HardError ==
    [getTemplate |-> "get template failed",
     listClusterAlerts |-> "get old cluster alert failed",
     getClusterRule |-> "get alert rule failed",
     createClusterRule |-> "create alert rule failed",
     updateClusterRule |-> "update alert rule failed",
     createClusterGroup |-> "create alert group failed",
     listProjectAlerts |-> "get old project alert failed",
     getProjectRule |-> "get alert rule failed",
     createProjectRule |-> "create alert rule failed",
     updateProjectRule |-> "update alert rule failed",
     removeLegacyAlerting |-> "failed to remove legacy alerting namespace when upgrade",
     listSystemProjects |-> "list system project failed",
     getApp |-> "get app failed",
     getCluster |-> "get cluster failed",
     getCatalog |-> "get catalog failed",
     updateApp |-> "update app failed"]

\* the store call of the step of p fails: Upgrade returns the error at once
HardFailure(p) ==
    /\ pc[p] \in DOMAIN HardError
    /\ failures < MaxFailures
    /\ failures' = failures + 1
    /\ ReturnError(p, HardError[pc[p]], frame[p])
    /\ UNCHANGED <<storeVars, calls, envOps, histVars>>

\* upgradeimpl.go 368-371: the create of a project group fails; the error message
\* reads legacyGroup, which Create has just reassigned: a nil group panics
CreateProjectGroupFails(p) ==
    /\ pc[p] = "createProjectGroup"
    /\ failures < MaxFailures
    /\ failures' = failures + 1
    /\ \/ Panic(p, frame[p])
       \/ ReturnError(p, "create migrate alert group failed", frame[p])
    /\ UNCHANGED <<storeVars, calls, envOps, histVars>>

\* ------------------------------------------------------------- other actors
\* Other actors write rules too.  A write to a rule changes what a call does only
\* when it falls before the call's get of that rule, or between its get and its
\* create or update: these are the writes modelled.

\* a rule another actor wrote under the key k: its own labels and Spec
ForeignClusterRule(k) ==
    [ObjectMeta |-> [Name |-> k[2], Namespace |-> k[1], Labels |-> {"user"}],
     Spec |->
       [ClusterName |-> clusterName, GroupName |-> GetGroupID(clusterName, "user-group"),
        DisplayName |-> "user", Severity |-> "info",
        GroupWaitSeconds |-> 1, GroupIntervalSeconds |-> 2, RepeatIntervalSeconds |-> 3,
        NodeRule |-> Nil,
        EventRule |-> Some([EventType |-> "Normal", ResourceKind |-> "Node"]),
        SystemServiceRule |-> Nil, MetricRule |-> Some("up == 0")]]

ForeignProjectRule(k) ==
    [ObjectMeta |-> [Name |-> k[2], Namespace |-> k[1], Labels |-> {"user"}],
     Spec |->
       [ProjectName |-> <<clusterName, k[1]>>, GroupName |-> GetGroupID(k[1], "user-group"),
        DisplayName |-> "user", Severity |-> "info",
        GroupWaitSeconds |-> 1, GroupIntervalSeconds |-> 2, RepeatIntervalSeconds |-> 3,
        PodRule |-> Some([PodName |-> "pod9", Condition |-> "notrunning",
                          RestartTimes |-> 0, RestartIntervalSeconds |-> 0]),
        WorkloadRule |-> Nil, MetricRule |-> Some("up == 0")]]

\* the key of the rule the call of p is at
CurrentRuleKey(p) ==
    IF pc[p] \in {"getClusterRule", "createClusterRule", "updateClusterRule"}
    THEN KeyOf(NewClusterRule(frame[p].items[frame[p].i]))
    ELSE KeyOf(NewProjectRule(frame[p].projectID, frame[p].items[frame[p].i]))

\* another actor creates the rule the call of p is about to get or to create
OtherCreatesRule(p) ==
    /\ envOps < MaxEnvOps
    /\ envOps' = envOps + 1
    /\ \/ /\ pc[p] \in {"getClusterRule", "createClusterRule"}
          /\ CurrentRuleKey(p) \notin DOMAIN clusterAlertRules
          /\ clusterAlertRules' =
                Put(clusterAlertRules, ForeignClusterRule(CurrentRuleKey(p)))
          /\ UNCHANGED projectAlertRules
       \/ /\ pc[p] \in {"getProjectRule", "createProjectRule"}
          /\ CurrentRuleKey(p) \notin DOMAIN projectAlertRules
          /\ projectAlertRules' =
                Put(projectAlertRules, ForeignProjectRule(CurrentRuleKey(p)))
          /\ UNCHANGED clusterAlertRules
    /\ UNCHANGED <<legacyVars, clusterAlertGroups, projectAlertGroups, namespaces, apps,
                   templates, pc, frame, result, ops, calls, failures, histVars>>

\* another actor deletes the rule the call of p is about to get or to update
OtherDeletesRule(p) ==
    /\ envOps < MaxEnvOps
    /\ envOps' = envOps + 1
    /\ \/ /\ pc[p] \in {"getClusterRule", "updateClusterRule"}
          /\ CurrentRuleKey(p) \in DOMAIN clusterAlertRules
          /\ clusterAlertRules' = Remove(clusterAlertRules, CurrentRuleKey(p))
          /\ UNCHANGED projectAlertRules
       \/ /\ pc[p] \in {"getProjectRule", "updateProjectRule"}
          /\ CurrentRuleKey(p) \in DOMAIN projectAlertRules
          /\ projectAlertRules' = Remove(projectAlertRules, CurrentRuleKey(p))
          /\ UNCHANGED clusterAlertRules
    /\ UNCHANGED <<legacyVars, clusterAlertGroups, projectAlertGroups, namespaces, apps,
                   templates, pc, frame, result, ops, calls, failures, histVars>>

\* the list with the common fields of its j-th alert set to c
Edited(alerts, j, c) == [alerts EXCEPT ![j].Spec = WithCommonField(@, c)]

\* between two calls, the owner of a legacy alert edits its common fields
OtherEditsAlert ==
    /\ \A p \in Procs : pc[p] \in {"idle", "done"}
    /\ calls < MaxCalls
    /\ envOps < MaxEnvOps
    /\ envOps' = envOps + 1
    /\ \E c \in AlertCommonFields :
          \/ /\ \E j \in 1..Len(oldClusterAlerts) :
                   /\ WithCommonField(oldClusterAlerts[j].Spec, c) # oldClusterAlerts[j].Spec
                   /\ oldClusterAlerts' = Edited(oldClusterAlerts, j, c)
             /\ UNCHANGED oldProjectAlerts
          \/ /\ \E j \in 1..Len(oldProjectAlerts) :
                   /\ WithCommonField(oldProjectAlerts[j].Spec, c) # oldProjectAlerts[j].Spec
                   /\ oldProjectAlerts' = Edited(oldProjectAlerts, j, c)
             /\ UNCHANGED oldClusterAlerts
    /\ UNCHANGED <<ruleVars, namespaces, apps, templates, pc, frame, result, ops, calls,
                   failures, histVars>>

\* ----------------------------------------------------------- specification
\* one store call of the call of p, the store answering
StoreStep(p) ==
    \/ GetTemplate(p)
    \/ ListClusterAlerts(p)
    \/ GetClusterRule(p)
    \/ CreateClusterRule(p)
    \/ UpdateClusterRule(p)
    \/ CreateClusterGroup(p)
    \/ ListProjectAlerts(p)
    \/ GetProjectRule(p)
    \/ CreateProjectRule(p)
    \/ UpdateProjectRule(p)
    \/ CreateProjectGroup(p)
    \/ RemoveLegacyAlerting(p)
    \/ ListSystemProjects(p)
    \/ GetApp(p)
    \/ GetCluster(p)
    \/ GetCatalog(p)
    \/ UpdateApp(p)

\* one step of the call of p
UpgradeStep(p) ==
    \/ StoreStep(p)
    \/ HardFailure(p)
    \/ CreateProjectGroupFails(p)

Next ==
    \/ \E p \in Callers :
          \/ Call(p)
          \/ UpgradeStep(p)
          \/ OtherCreatesRule(p)
          \/ OtherDeletesRule(p)
    \/ OtherEditsAlert

Spec == Init /\ [][Next]_vars

\* Two callers invoke Upgrade once each and run concurrently; no store call fails
\* with a hard error and no other actor writes.
CallOnce(p) == pc[p] = "idle" /\ Call(p)

NextConcurrent == \E p \in Procs : CallOnce(p) \/ StoreStep(p)

SpecConcurrent == Init /\ [][NextConcurrent]_vars


\* The caller re-invokes Upgrade with the version it passed before, after every
\* call that returned an error; no store call fails with a hard error and no other
\* actor writes. The caller keeps re-invoking, a call in progress goes on, and the
\* listers again and again hold the system project, a ready cluster and a ready
\* catalog.
Retry(p) ==
    /\ pc[p] = "done"
    /\ result[p].err # NoError
    /\ frame' = [frame EXCEPT ![p] =
                    [EmptyFrame EXCEPT !.currentVersion = frame[p].currentVersion]]
    /\ pc' = [pc EXCEPT ![p] = "getTemplate"]
    /\ result' = [result EXCEPT ![p] = NoResult]
    /\ ops' = [ops EXCEPT ![p] = <<>>]
    /\ atCall' = [atCall EXCEPT ![p] =
                     [failures |-> failures, envOps |-> envOps,
                      groups |-> DOMAIN clusterAlertGroups \cup DOMAIN projectAlertGroups,
                      updated |-> FALSE]]
    /\ UNCHANGED <<storeVars, boundVars, migrations>>

\* the lister holds the system project
SystemProjectListed(p) == ListSystemProjects(p) /\ pc'[p] = "getApp"

\* the lister holds a ready cluster
ClusterFoundReady(p) == GetCluster(p) /\ pc'[p] = "getCatalog"

\* the lister holds a ready catalog
CatalogFoundReady(p) == GetCatalog(p) /\ pc'[p] = "updateApp"

NextRetry == \E p \in Callers : CallOnce(p) \/ Retry(p) \/ StoreStep(p)

SpecRetry ==
    /\ Init
    /\ [][NextRetry]_vars
    /\ \A p \in Callers :
          /\ WF_vars(Retry(p))
          /\ WF_vars(StoreStep(p))
          /\ SF_vars(SystemProjectListed(p))
          /\ SF_vars(ClusterFoundReady(p))
          /\ SF_vars(CatalogFoundReady(p))

\* ------------------------------------------------------------- properties
Done(p) == pc[p] = "done"

\* the call of p returned a version and a nil error
Succeeded(p) == Done(p) /\ result[p].err = NoError /\ ~result[p].panic

\* the store calls the current or last call of p has made
OpsOf(p) == {ops[p][j] : j \in 1..Len(ops[p])}

\* the steps of the two migrations and of the cleanup
MigrationOps ==
    {"listClusterAlerts", "getClusterRule", "createClusterRule", "updateClusterRule",
     "createClusterGroup", "listProjectAlerts", "getProjectRule", "createProjectRule",
     "updateProjectRule", "createProjectGroup"}

\* the errors the two migrations return
MigrationErrors ==
    {HardError[k] : k \in MigrationOps \ {"createProjectGroup"}}
        \cup {"create migrate alert group failed"}

\* the call of p ended in one of the two migrations
MigrationFailed(p) ==
    /\ Done(p)
    /\ \/ result[p].err \in MigrationErrors
       \/ result[p].panic /\ ops[p][Len(ops[p])] \in MigrationOps

\* no store call failed and no other actor wrote since the call that made the
\* migration run m started
QuietSince(m, f, e) == f = m.atCall.failures /\ e = m.atCall.envOps

\* C1: two migration runs in a row on the same legacy alerts, with no failing store
\* call and no write of another actor from the start of the first to the end of the
\* second, leave the same rules and groups as the first alone, and the second
\* returns no error.
C1_MigrationIdempotent ==
    /\ \A j \in 2..Len(migrations) :
          (/\ QuietSince(migrations[j - 1], migrations[j].failures, migrations[j].envOps)
           /\ migrations[j].legacy = migrations[j - 1].legacy)
          => migrations[j].rules = migrations[j - 1].rules
    /\ \A p \in Procs :
          (/\ Done(p)
           /\ Len(migrations) >= 1
           /\ QuietSince(migrations[Len(migrations)], failures, envOps))
          => ~MigrationFailed(p)

\* C1 witness: a second run has ended after a first, nothing else having happened,
\* over a cluster alert and a project alert that were both migrated
C1_Witness ==
    /\ Len(migrations) = 2
    /\ QuietSince(migrations[1], migrations[2].failures, migrations[2].envOps)
    /\ DOMAIN migrations[2].rules[1] # {}
    /\ DOMAIN migrations[2].rules[2] # {}
    /\ DOMAIN migrations[2].rules[3] # {}
    /\ DOMAIN migrations[2].rules[4] # {}

\* the readiness check of the call of p has passed
ChecksPassed(p) ==
    /\ frame[p].cluster # Nil
    /\ frame[p].cluster[1].Ready
    /\ frame[p].systemCatalog # Nil
    /\ frame[p].systemCatalog[1].Upgraded
    /\ frame[p].systemCatalog[1].Refreshed
    /\ frame[p].systemCatalog[1].DiskCached

\* the readiness check of the call of p has read a condition that is false
CheckFailed(p) ==
    \/ frame[p].cluster # Nil /\ ~frame[p].cluster[1].Ready
    \/ /\ frame[p].systemCatalog # Nil
       /\ \/ ~frame[p].systemCatalog[1].Upgraded
          \/ ~frame[p].systemCatalog[1].Refreshed
          \/ ~frame[p].systemCatalog[1].DiskCached

\* C2: a call attempts the application update only after it has read the cluster
\* ready and the catalog upgraded, refreshed and disk-cached; a call that has read
\* one of the four false returns an error and attempts no update.
C2_UpdateOnlyWhenReady ==
    \A p \in Procs :
       /\ (pc[p] = "updateApp" \/ "updateApp" \in OpsOf(p)) => ChecksPassed(p)
       /\ (Done(p) /\ CheckFailed(p)) =>
             (result[p].err # NoError /\ "updateApp" \notin OpsOf(p))

\* C2 witness: a call has updated the application and returned
C2_Witness ==
    \E p \in Procs :
       /\ Succeeded(p)
       /\ "updateApp" \in OpsOf(p)
       /\ apps[<<systemProjectName, appName>>] = frame[p].newApp[1]

\* C3: a failed readiness check is reported by subject: the cluster when the
\* cluster is not ready (the catalog is then not consulted, whatever its state),
\* the catalog when the cluster is ready and a catalog condition is false.
C3_NotReadyNamesSubject ==
    \A p \in Procs :
       Done(p) =>
          /\ (frame[p].cluster # Nil /\ ~frame[p].cluster[1].Ready) =>
                (/\ result[p].err = "cluster not ready"
                 /\ "getCatalog" \notin OpsOf(p))
          /\ (frame[p].systemCatalog # Nil /\ CheckFailed(p)) =>
                (/\ result[p].err = "catalog not ready"
                 /\ frame[p].cluster # Nil
                 /\ frame[p].cluster[1].Ready)

\* C3 witness: the cluster was ready and the catalog was not disk-cached only
C3_Witness ==
    \E p \in Procs :
       /\ Done(p)
       /\ frame[p].systemCatalog =
             Some([Upgraded |-> TRUE, Refreshed |-> TRUE, DiskCached |-> FALSE])
       /\ result[p].err = "catalog not ready"

\* the application record app is at the desired state for the external id id
Desired(app, id) ==
    /\ app.Spec.ExternalID = id
    /\ app.Spec.Answers # Nil
    /\ "operator.enabled" \in DOMAIN app.Spec.Answers[1]
    /\ app.Spec.Answers[1]["operator.enabled"] = "false"

\* C4: a call that fetched an application already at the new external id with
\* operator.enabled = "false" returns the new version and no error, without
\* consulting the readiness and without an update.
C4_NoOpGuard ==
    \A p \in Procs :
       (/\ Done(p)
        /\ frame[p].app # Nil
        /\ Desired(frame[p].app[1], frame[p].newExternalID[1]))
       => /\ result[p] = [version |-> ParseExternalID(frame[p].newExternalID[1]),
                          err |-> NoError, panic |-> FALSE]
          /\ OpsOf(p) \cap {"getCluster", "getCatalog", "updateApp"} = {}

\* C4 witness: a second call found the application as the first call left it
C4_Witness ==
    \E p \in Procs :
       /\ Succeeded(p)
       /\ calls = 2
       /\ frame[p].app # Nil
       /\ Desired(frame[p].app[1], frame[p].newExternalID[1])
       /\ "updateApp" \notin OpsOf(p)

\* the version id of the external id built from the template's default version
ResolvedVersion ==
    <<SystemMonitoringCatalogID.catalog, SystemMonitoringCatalogID.template,
      templates[templateID].DefaultVersion>>

\* the get of the application by the call of p found no record
AppNotFound(p) ==
    /\ Done(p)
    /\ Len(ops[p]) > 0
    /\ ops[p][Len(ops[p])] = "getApp"
    /\ failures = atCall[p].failures
    /\ <<systemProjectName, appName>> \notin DOMAIN apps

\* C5: when the application record does not exist, the call returns the resolved
\* new version and no error; it creates and updates no application and does not
\* consult the cluster or the catalog.
C5_MissingApp ==
    \A p \in Procs :
       AppNotFound(p) =>
          /\ result[p] = [version |-> ResolvedVersion, err |-> NoError, panic |-> FALSE]
          /\ OpsOf(p) \cap {"getCluster", "getCatalog", "updateApp"} = {}
          /\ apps = <<>>

\* C5 witness: a migrating call ended at the missing application
C5_Witness ==
    \E p \in Procs : AppNotFound(p) /\ "removeLegacyAlerting" \in OpsOf(p)

\* C6: a call migrates and cleans up exactly when its currentVersion lacks the
\* marker: with the marker it lists no legacy alert, gets, creates or updates no
\* rule or group and does not delete the namespace; without it, the migration is
\* the step after the template lookup and a successful call has deleted the
\* namespace.
C6_MarkerSkipsMigration ==
    \A p \in Procs :
       /\ Contains(frame[p].currentVersion, Marker) =>
             OpsOf(p) \cap (MigrationOps \cup {"removeLegacyAlerting"}) = {}
       /\ (~Contains(frame[p].currentVersion, Marker) /\ Len(ops[p]) >= 2) =>
             ops[p][2] = "listClusterAlerts"
       /\ (~Contains(frame[p].currentVersion, Marker) /\ Succeeded(p)) =>
             {"listClusterAlerts", "listProjectAlerts", "removeLegacyAlerting"}
                 \subseteq OpsOf(p)

\* C6 witness: a call with the marker has succeeded while legacy alerts and the
\* legacy namespace are there, not migrated
C6_Witness ==
    \E p \in Procs :
       /\ Succeeded(p)
       /\ Contains(frame[p].currentVersion, Marker)
       /\ Len(oldClusterAlerts) > 0
       /\ clusterAlertRules = <<>>
       /\ legacyAlertmanagerNamespace \in namespaces

\* the step of the call of p that a step of the system is, if it is one, made no
\* store call that failed with a hard error
StepOf(p) == pc'[p] # pc[p] /\ failures' = failures

\* the key of the group the call of p is at
CurrentGroupKey(p) ==
    IF pc[p] \in {"getClusterRule", "createClusterRule", "updateClusterRule",
                  "createClusterGroup"}
    THEN <<clusterName, "migrate-group-" \o frame[p].items[frame[p].i].Name>>
    ELSE <<frame[p].projectID[2], "migrate-group-" \o frame[p].items[frame[p].i].Name>>

\* the call of p goes on after the group of its alert: to the next alert, or
\* past the loop when there is none
GoesOn(p, nextAlert, afterLoop) ==
    IF frame[p].i < Len(frame[p].items)
    THEN pc'[p] = nextAlert /\ frame'[p].i = frame[p].i + 1
    ELSE IF frame[p].pending # {}
    THEN pc'[p] = nextAlert /\ frame'[p].projectID \in frame[p].pending
    ELSE pc'[p] = afterLoop

\* C7: a create of a rule or of a group that finds the record already there is no
\* error: the call goes on to the group of the alert, and after the group to the
\* next legacy alert or past the loop.
C7_AlreadyExistsTolerated ==
    [][\A p \in Procs :
          StepOf(p) =>
             /\ (/\ pc[p] = "createClusterRule"
                 /\ CurrentRuleKey(p) \in DOMAIN clusterAlertRules)
                => (pc'[p] = "createClusterGroup" /\ frame'[p].i = frame[p].i)
             /\ (/\ pc[p] = "createProjectRule"
                 /\ CurrentRuleKey(p) \in DOMAIN projectAlertRules)
                => (pc'[p] = "createProjectGroup" /\ frame'[p].i = frame[p].i)
             /\ (/\ pc[p] = "createClusterGroup"
                 /\ CurrentGroupKey(p) \in DOMAIN clusterAlertGroups)
                => GoesOn(p, "getClusterRule", "listProjectAlerts")
             /\ (/\ pc[p] = "createProjectGroup"
                 /\ CurrentGroupKey(p) \in DOMAIN projectAlertGroups)
                => GoesOn(p, "getProjectRule", "removeLegacyAlerting")]_vars

\* C7 witness: a call has succeeded although the create of the rule of its first
\* cluster alert found the rule of another actor; the second alert was migrated
C7_Witness ==
    \E p \in Procs :
       /\ Succeeded(p)
       /\ Len(oldClusterAlerts) = 2
       /\ LET k1 == KeyOf(NewClusterRule(oldClusterAlerts[1]))
              k2 == KeyOf(NewClusterRule(oldClusterAlerts[2]))
          IN  /\ k1 \in DOMAIN clusterAlertRules
              /\ clusterAlertRules[k1] = ForeignClusterRule(k1)
              /\ "createClusterRule" \in OpsOf(p)
              /\ k2 \in DOMAIN clusterAlertRules
              /\ KeyOf(ClusterLegacyGroup(oldClusterAlerts[2])) \in DOMAIN clusterAlertGroups

\* the rule carries the targets of the legacy cluster alert v, and no other
ClusterTargetsMatch(rule, v) ==
    /\ rule.Spec.NodeRule = v.Spec.TargetNode
    /\ rule.Spec.EventRule = v.Spec.TargetEvent
    /\ rule.Spec.SystemServiceRule = v.Spec.TargetSystemService

\* the rule carries the targets of the legacy project alert v, and no other
ProjectTargetsMatch(rule, v) ==
    /\ rule.Spec.PodRule = v.Spec.TargetPod
    /\ rule.Spec.WorkloadRule = v.Spec.TargetWorkload

\* what holds of the store after a successful migrating call, for the j-th legacy
\* cluster alert; the groups in existing need not have the recipients of the alert
ClusterAlertMigrated(j, existing) ==
    LET v == oldClusterAlerts[j]
        rk == <<clusterName, "migrate-" \o v.Name>>
        gk == <<clusterName, "migrate-group-" \o v.Name>>
    IN  /\ rk \in DOMAIN clusterAlertRules
        /\ ClusterTargetsMatch(clusterAlertRules[rk], v)
        /\ gk \in DOMAIN clusterAlertGroups
        /\ gk \notin existing =>
              clusterAlertGroups[gk].Spec.Recipients = v.Spec.Recipients

\* a migrating call of p has succeeded, no other actor having written meanwhile
MigratedQuietly(p) ==
    /\ Succeeded(p)
    /\ ~Contains(frame[p].currentVersion, Marker)
    /\ envOps = atCall[p].envOps

\* C8, as claimed: after a successful Upgrade without the marker, every legacy
\* cluster alert N has its rule migrate-N with the alert's targets and its group
\* migrate-group-N with the alert's recipients, and the legacy namespace is gone.
C8_AsClaimed ==
    \A p \in Procs :
       MigratedQuietly(p) =>
          /\ \A j \in 1..Len(oldClusterAlerts) : ClusterAlertMigrated(j, {})
          /\ legacyAlertmanagerNamespace \notin namespaces

\* C8, amended: the same, the recipients being those of the alert when no group of
\* that name existed before the call; a group that existed is not looked at.
C8_MigratedAfterUpgrade ==
    \A p \in Procs :
       MigratedQuietly(p) =>
          /\ \A j \in 1..Len(oldClusterAlerts) :
                ClusterAlertMigrated(j, atCall[p].groups)
          /\ legacyAlertmanagerNamespace \notin namespaces

\* C8 witness: two legacy cluster alerts, one with a node target, migrated by a
\* first call that succeeded
C8_Witness ==
    \E p \in Procs :
       /\ MigratedQuietly(p)
       /\ calls = 1
       /\ Len(oldClusterAlerts) = 2
       /\ oldClusterAlerts[1].Spec.TargetNode # Nil
       /\ clusterAlertGroups[<<clusterName, "migrate-group-high-cpu">>].Spec.Recipients
             = <<"a@x.com", "b@x.com", "a@x.com">>

\* C9: every successful call returns the version id of the external id built from
\* the template's default version, whatever its currentVersion and whichever way
\* it succeeded.
C9_ReturnsResolvedVersion ==
    \A p \in Procs : Succeeded(p) => result[p].version = ResolvedVersion

\* C9 witness: a call given a version with the marker has updated the application
C9_Witness ==
    \E p \in Procs :
       /\ Succeeded(p)
       /\ Contains(frame[p].currentVersion, Marker)
       /\ "updateApp" \in OpsOf(p)
       /\ result[p].version = <<"system-library", "rancher-monitoring", "0.2.0">>

\* C10: the rule a call writes, by a create or by an update, carries the targets
\* of the legacy alert it is written for and no other.
C10_TargetsTranslated ==
    [][\A p \in Procs :
          StepOf(p) =>
             /\ (/\ pc[p] \in {"createClusterRule", "updateClusterRule"}
                 /\ pc'[p] = "createClusterGroup"
                 /\ clusterAlertRules' # clusterAlertRules)
                => (/\ CurrentRuleKey(p) \in DOMAIN clusterAlertRules'
                    /\ ClusterTargetsMatch(clusterAlertRules'[CurrentRuleKey(p)],
                                           frame[p].items[frame[p].i]))
             /\ (/\ pc[p] \in {"createProjectRule", "updateProjectRule"}
                 /\ pc'[p] = "createProjectGroup"
                 /\ projectAlertRules' # projectAlertRules)
                => (/\ CurrentRuleKey(p) \in DOMAIN projectAlertRules'
                    /\ ProjectTargetsMatch(projectAlertRules'[CurrentRuleKey(p)],
                                           frame[p].items[frame[p].i]))]_vars

\* C10 witness: the update of a rule of another actor, which carried an event
\* rule, for a legacy alert with a node target
C10_Witness ==
    \E p \in Procs :
       /\ pc[p] = "createClusterGroup"
       /\ ops[p][Len(ops[p])] = "updateClusterRule"
       /\ LET r == clusterAlertRules[<<clusterName, "migrate-" \o frame[p].items[frame[p].i].Name>>]
          IN  /\ r.ObjectMeta.Labels = {"user"}
              /\ r.Spec.NodeRule # Nil
              /\ r.Spec.EventRule = Nil

\* the record (a rule or a group) has the timing mapped from the legacy alert v
TimingMapped(rec, v) ==
    /\ rec.Spec.GroupWaitSeconds = v.Spec.InitialWaitSeconds
    /\ rec.Spec.RepeatIntervalSeconds = v.Spec.RepeatIntervalSeconds
    /\ rec.Spec.GroupIntervalSeconds = 180

\* C11: every rule and every group a call writes has the group wait of the legacy
\* alert's initial wait, the repeat interval of the legacy alert's, and a group
\* interval of 180 seconds.
C11_TimingMapped ==
    [][\A p \in Procs :
          StepOf(p) =>
             /\ (/\ pc[p] \in {"createClusterRule", "updateClusterRule"}
                 /\ clusterAlertRules' # clusterAlertRules)
                => TimingMapped(clusterAlertRules'[CurrentRuleKey(p)],
                                frame[p].items[frame[p].i])
             /\ (/\ pc[p] \in {"createProjectRule", "updateProjectRule"}
                 /\ projectAlertRules' # projectAlertRules)
                => TimingMapped(projectAlertRules'[CurrentRuleKey(p)],
                                frame[p].items[frame[p].i])
             /\ (/\ pc[p] = "createClusterGroup"
                 /\ clusterAlertGroups' # clusterAlertGroups)
                => TimingMapped(clusterAlertGroups'[CurrentGroupKey(p)],
                                frame[p].items[frame[p].i])
             /\ (/\ pc[p] = "createProjectGroup"
                 /\ projectAlertGroups' # projectAlertGroups)
                => TimingMapped(projectAlertGroups'[CurrentGroupKey(p)],
                                frame[p].items[frame[p].i])]_vars

\* C11 witness: a project alert first migrated with 30 s and 300 s, then edited to
\* 60 s and 600 s and migrated again: the rule was rewritten with the new timing,
\* the group was written once
C11_Witness ==
    \E p \in Procs :
       /\ Succeeded(p)
       /\ \E k \in DOMAIN projectAlertRules :
             /\ projectAlertRules[k].Spec.GroupWaitSeconds = 60
             /\ projectAlertRules[k].Spec.RepeatIntervalSeconds = 600
             /\ projectAlertRules[k].Spec.GroupIntervalSeconds = 180
       /\ \E k \in DOMAIN projectAlertGroups :
             /\ projectAlertGroups[k].Spec.GroupWaitSeconds = 30
             /\ projectAlertGroups[k].Spec.RepeatIntervalSeconds = 300
             /\ projectAlertGroups[k].Spec.GroupIntervalSeconds = 180

\* the store that holds exactly the records of the set recs, each under its key
StoreOf(recs) ==
    [k \in {KeyOf(r) : r \in recs} |-> CHOOSE r \in recs : KeyOf(r) = k]

\* the legacy project alerts of this cluster
InCluster ==
    {oldProjectAlerts[j] : j \in {i \in 1..Len(oldProjectAlerts) :
                                     ObjectInCluster(clusterName, oldProjectAlerts[i])}}

\* the rules and groups of the legacy alerts, as the translation gives them
TranslatedStores ==
    <<StoreOf({NewClusterRule(oldClusterAlerts[j]) : j \in 1..Len(oldClusterAlerts)}),
      StoreOf({ClusterLegacyGroup(oldClusterAlerts[j]) : j \in 1..Len(oldClusterAlerts)}),
      StoreOf({NewProjectRule(v.Spec.ProjectName, v) : v \in InCluster}),
      StoreOf({ProjectLegacyGroup(v.Spec.ProjectName, v) : v \in InCluster})>>

\* C12: two calls that migrate the same legacy alerts concurrently, the store
\* failing with nothing but already-exists: no run ends with an error or a panic,
\* a run that is in its migration can always take its next step, and when both
\* have returned from the migration the store holds exactly the translated rule
\* and the translated group of every legacy alert, and nothing else.
C12_ConcurrentMigrations ==
    /\ \A p \in Procs : ~MigrationFailed(p)
    /\ \A p \in Procs : pc[p] \in MigrationOps => ENABLED StoreStep(p)
    /\ Len(migrations) = 2 =>
          <<clusterAlertRules, clusterAlertGroups, projectAlertRules, projectAlertGroups>>
             = TranslatedStores

\* C12 witness: both runs have returned from the migration of a cluster alert and
\* of a project alert; both found the cluster rule missing and went to create it,
\* and one found the project rule the other had created and updated it
C12_Witness ==
    /\ Len(migrations) = 2
    /\ Len(oldClusterAlerts) = 1
    /\ InCluster # {}
    /\ \A p \in Procs : "createClusterRule" \in OpsOf(p)
    /\ \E p \in Procs : "updateProjectRule" \in OpsOf(p)

\* C13: every call ends by returning a version or an error; none ends in a panic,
\* also when the application has no answers map or the create of a project group
\* fails.
C13_NeverCrashes ==
    \A p \in Procs :
       Done(p) =>
          /\ ~result[p].panic
          /\ \/ result[p].err # NoError /\ result[p].version = <<>>
             \/ result[p].err = NoError /\ result[p].version = frame[p].newVersion

\* the place of each step in the order Upgrade makes its store calls
Phase ==
    [getTemplate |-> 1,
     listClusterAlerts |-> 2, getClusterRule |-> 2, createClusterRule |-> 2,
     updateClusterRule |-> 2, createClusterGroup |-> 2,
     listProjectAlerts |-> 3, getProjectRule |-> 3, createProjectRule |-> 3,
     updateProjectRule |-> 3, createProjectGroup |-> 3,
     removeLegacyAlerting |-> 4, listSystemProjects |-> 5, getApp |-> 6,
     getCluster |-> 7, getCatalog |-> 8, updateApp |-> 9]

\* the last store call the current or last call of p made
LastOp(p) == ops[p][Len(ops[p])]

\* a store call of the call of p has failed with a hard error, or its readiness
\* check has read a condition that is false
StepFailed(p) == failures > atCall[p].failures \/ CheckFailed(p)

\* the first call has failed in the migration of the cluster alerts, at the alert
\* frame[p].i or at the list, no other actor having written: the later cluster
\* alerts and the project alerts have no rule and no group, the namespace is there
LaterUntouched(p) ==
    (/\ calls = 1
     /\ envOps = 0
     /\ Phase[LastOp(p)] = 2)
    => /\ \A j \in (frame[p].i + 1)..Len(oldClusterAlerts) :
             /\ KeyOf(NewClusterRule(oldClusterAlerts[j])) \notin DOMAIN clusterAlertRules
             /\ KeyOf(ClusterLegacyGroup(oldClusterAlerts[j])) \notin DOMAIN clusterAlertGroups
       /\ projectAlertRules = <<>>
       /\ projectAlertGroups = <<>>

\* C14: a call of which a step has failed has returned an error; the failing step
\* is its last store call, so no step that comes later in the order was made: no
\* later legacy alert is migrated, the namespace is not deleted after a failure in
\* the migration, and the application is not updated; the step that returns the
\* error writes nothing, and nothing is written for the call afterwards.
C14_StopsAtFailingStep ==
    /\ [](\A p \in Procs :
             (Done(p) /\ StepFailed(p)) =>
                /\ result[p].err # NoError
                /\ ~result[p].panic
                /\ \A j \in 1..Len(ops[p]) : Phase[ops[p][j]] <= Phase[LastOp(p)]
                /\ LaterUntouched(p)
                /\ (Phase[LastOp(p)] \in {2, 3} /\ calls = 1) =>
                      legacyAlertmanagerNamespace \in namespaces
                /\ "updateApp" \in OpsOf(p) => LastOp(p) = "updateApp")
    /\ [][\A p \in Procs :
             (pc'[p] = "done" /\ (result'[p].err # NoError \/ result'[p].panic))
             => UNCHANGED <<ruleVars, namespaces, apps>>]_vars

\* C15: a create of a rule that finds the rule already there, and an update of a
\* rule that finds the rule gone (deleted by another actor since the get), do not
\* abort the migration: the call goes on to the group of the alert.
C15_NotFoundTolerated ==
    [][\A p \in Procs :
          StepOf(p) =>
             /\ (/\ pc[p] \in {"createClusterRule", "updateClusterRule"}
                 /\ (pc[p] = "createClusterRule")
                       = (CurrentRuleKey(p) \in DOMAIN clusterAlertRules))
                => pc'[p] = "createClusterGroup"
             /\ (/\ pc[p] \in {"createProjectRule", "updateProjectRule"}
                 /\ (pc[p] = "createProjectRule")
                       = (CurrentRuleKey(p) \in DOMAIN projectAlertRules))
                => pc'[p] = "createProjectGroup"]_vars

\* every legacy alert of this cluster has its rule and its group in the store
AllMigrated ==
    /\ \A j \in 1..Len(oldClusterAlerts) :
          /\ KeyOf(NewClusterRule(oldClusterAlerts[j])) \in DOMAIN clusterAlertRules
          /\ KeyOf(ClusterLegacyGroup(oldClusterAlerts[j])) \in DOMAIN clusterAlertGroups
    /\ \A v \in InCluster :
          /\ KeyOf(NewProjectRule(v.Spec.ProjectName, v)) \in DOMAIN projectAlertRules
          /\ KeyOf(ProjectLegacyGroup(v.Spec.ProjectName, v)) \in DOMAIN projectAlertGroups

\* C16: a call that migrates makes its store calls in the order cluster alerts,
\* project alerts, namespace delete, application; the namespace is deleted only
\* after both migrations were run through (every legacy alert then has its rule and
\* group, other actors aside), and the application is fetched and updated only
\* after the namespace delete.
C16_OrderOfOperations ==
    /\ [](\A p \in Procs :
             ~Contains(frame[p].currentVersion, Marker) =>
                /\ \A j, k \in 1..Len(ops[p]) :
                      j < k => Phase[ops[p][j]] <= Phase[ops[p][k]]
                /\ (pc[p] = "removeLegacyAlerting" \/ "removeLegacyAlerting" \in OpsOf(p))
                      => {"listClusterAlerts", "listProjectAlerts"} \subseteq OpsOf(p)
                /\ (OpsOf(p) \cap {"getApp", "updateApp"} # {})
                      => "removeLegacyAlerting" \in OpsOf(p))
    /\ [][\A p \in Procs :
             /\ (/\ pc[p] = "removeLegacyAlerting"
                 /\ namespaces' # namespaces
                 /\ envOps = atCall[p].envOps)
                => AllMigrated
             /\ (/\ pc[p] = "updateApp"
                 /\ apps' # apps
                 /\ ~Contains(frame[p].currentVersion, Marker))
                => legacyAlertmanagerNamespace \notin namespaces]_vars

\* C16 witness: a call has migrated a cluster alert and a project alert, deleted
\* the namespace and updated the application
C16_Witness ==
    \E p \in Procs :
       /\ Succeeded(p)
       /\ ~Contains(frame[p].currentVersion, Marker)
       /\ {"createClusterGroup", "createProjectGroup", "removeLegacyAlerting", "updateApp"}
             \subseteq OpsOf(p)
       /\ legacyAlertmanagerNamespace \notin namespaces

\* C17: the cleanup deletes the namespace "cattle-alerting" and the call goes on
\* to the application, also when the namespace is not there; a delete that fails
\* otherwise ends the call with an error, the namespace as it was and the
\* application neither fetched nor updated.
C17_LegacyCleanup ==
    /\ [](\A p \in Procs :
             (Done(p) /\ LastOp(p) = "removeLegacyAlerting") =>
                /\ result[p].err # NoError
                /\ ~result[p].panic
                /\ "getApp" \notin OpsOf(p)
                /\ "updateApp" \notin OpsOf(p))
    /\ [][\A p \in Procs :
             (pc[p] = "removeLegacyAlerting" /\ pc'[p] # pc[p]) =>
                IF failures' = failures
                THEN /\ namespaces' = namespaces \ {"cattle-alerting"}
                     /\ pc'[p] = "listSystemProjects"
                ELSE /\ namespaces' = namespaces
                     /\ apps' = apps
                     /\ pc'[p] = "done"]_vars

\* C17 witness: a second migrating call, made after a first that deleted the
\* namespace and with no failure at all, has gone on from the cleanup and succeeded
C17_Witness ==
    \E p \in Procs :
       /\ Succeeded(p)
       /\ calls = 2
       /\ Len(migrations) = 2
       /\ failures = 0
       /\ "removeLegacyAlerting" \in OpsOf(p)
       /\ "cattle-alerting" \notin namespaces

\* the rules the migration wrote: those with a Spec the translation gives, which
\* names a migration group
MigratedRules(rules) ==
    {k \in DOMAIN rules : rules[k].Spec.GroupName[2] # "user-group"}

\* the call of p is about to create the group with the identifier id
Creating(p, id) ==
    /\ pc[p] \in {"createClusterGroup", "createProjectGroup"}
    /\ CurrentGroupKey(p) = id

\* C18: in every state, the group a migrated rule references exists or is the one
\* a call in progress is about to create; once the calls have returned, with a
\* version or with an error, every migrated rule references a group that exists.
C18_RulesReferenceGroups ==
    /\ \A k \in MigratedRules(clusterAlertRules) :
          \/ clusterAlertRules[k].Spec.GroupName \in DOMAIN clusterAlertGroups
          \/ \E p \in Procs : Creating(p, clusterAlertRules[k].Spec.GroupName)
    /\ \A k \in MigratedRules(projectAlertRules) :
          \/ projectAlertRules[k].Spec.GroupName \in DOMAIN projectAlertGroups
          \/ \E p \in Procs : Creating(p, projectAlertRules[k].Spec.GroupName)

\* every record of the store groups is in groups' unchanged
GroupsKept(groups, groupsNext) ==
    \A k \in DOMAIN groups : k \in DOMAIN groupsNext /\ groupsNext[k] = groups[k]

\* C19: no step changes a group that is in the store, whatever the legacy alert of
\* its name now holds.
C19_GroupsNeverModified ==
    [][/\ GroupsKept(clusterAlertGroups, clusterAlertGroups')
       /\ GroupsKept(projectAlertGroups, projectAlertGroups')]_vars

\* C19 witness: a second call has migrated a cluster alert whose initial wait,
\* repeat interval and recipients were edited after a first call had created its
\* group; the group is as the first call wrote it
C19_Witness ==
    \E p \in Procs : \E j \in 1..Len(oldClusterAlerts) :
       /\ Succeeded(p)
       /\ calls = 2
       /\ "createClusterGroup" \in OpsOf(p)
       /\ oldClusterAlerts[j].Spec.InitialWaitSeconds = 60
       /\ oldClusterAlerts[j].Spec.Recipients = <<"c@x.com">>
       /\ LET g == clusterAlertGroups[KeyOf(ClusterLegacyGroup(oldClusterAlerts[j]))]
          IN  /\ g.Spec.GroupWaitSeconds = 30
              /\ g.Spec.RepeatIntervalSeconds = 300
              /\ g.Spec.Recipients = <<"a@x.com", "b@x.com", "a@x.com">>

\* the call of p is at the update step and the update succeeds
Updates(p, step) ==
    /\ pc[p] = step
    /\ StepOf(p)
    /\ pc'[p] # "done"

\* C20, as claimed: an update keeps the metadata of the fetched rule and changes
\* the translated fields only; a field the translation does not set, such as the
\* metric rule, is as it was.
C20_AsClaimed ==
    [][\A p \in Procs :
          /\ Updates(p, "updateClusterRule") =>
                LET old == frame[p].oldRule[1]
                    new == clusterAlertRules'[CurrentRuleKey(p)]
                IN  /\ new.ObjectMeta = old.ObjectMeta
                    /\ new.Spec.MetricRule = old.Spec.MetricRule
          /\ Updates(p, "updateProjectRule") =>
                LET old == frame[p].oldRule[1]
                    new == projectAlertRules'[CurrentRuleKey(p)]
                IN  /\ new.ObjectMeta = old.ObjectMeta
                    /\ new.Spec.MetricRule = old.Spec.MetricRule]_vars

\* C20, amended: an update keeps the metadata of the fetched rule and replaces its
\* whole Spec by the translated one; no other rule is touched.
C20_UpdateKeepsMetadata ==
    [][\A p \in Procs :
          /\ Updates(p, "updateClusterRule") =>
                LET old == frame[p].oldRule[1]
                    k == CurrentRuleKey(p)
                IN  /\ DOMAIN clusterAlertRules' = DOMAIN clusterAlertRules
                    /\ \A j \in DOMAIN clusterAlertRules \ {k} :
                          clusterAlertRules'[j] = clusterAlertRules[j]
                    /\ clusterAlertRules'[k].ObjectMeta = old.ObjectMeta
                    /\ clusterAlertRules'[k].Spec
                          = NewClusterRule(frame[p].items[frame[p].i]).Spec
          /\ Updates(p, "updateProjectRule") =>
                LET old == frame[p].oldRule[1]
                    k == CurrentRuleKey(p)
                IN  /\ DOMAIN projectAlertRules' = DOMAIN projectAlertRules
                    /\ \A j \in DOMAIN projectAlertRules \ {k} :
                          projectAlertRules'[j] = projectAlertRules[j]
                    /\ projectAlertRules'[k].ObjectMeta = old.ObjectMeta
                    /\ projectAlertRules'[k].Spec
                          = NewProjectRule(frame[p].projectID,
                                           frame[p].items[frame[p].i]).Spec]_vars

\* C20 witness: the update of a project rule of another actor, which had its own
\* labels, a pod rule and a metric rule, for a legacy alert with a workload target
C20_Witness ==
    \E p \in Procs :
       /\ pc[p] = "createProjectGroup"
       /\ LastOp(p) = "updateProjectRule"
       /\ LET r == projectAlertRules[<<frame[p].projectID[2],
                                       "migrate-rule-" \o frame[p].items[frame[p].i].Name>>]
          IN  /\ r.ObjectMeta.Labels = {"user"}
              /\ r.Spec.DisplayName = "legacy alert"
              /\ r.Spec.WorkloadRule # Nil
              /\ r.Spec.MetricRule = Nil

\* the steps of the loop of migrateLegacyProjectAlert
ProjectLoopOps ==
    {"getProjectRule", "createProjectRule", "updateProjectRule", "createProjectGroup"}

\* the keys, with the given prefix of the name, of the legacy project alerts of
\* this cluster: the namespace is the name of the owning project
OwnedKeys(prefix) ==
    {<<RefParse(v.Spec.ProjectName).name, prefix \o v.Name>> : v \in InCluster}

\* C21: the alert a call is at in the project migration is one of this cluster and
\* of the project the call is at, so no alert of another cluster has a rule or a
\* group fetched, created or updated; every project rule and group in the store
\* is in the namespace of the project that owns its legacy alert.
C21_OnlyThisCluster ==
    /\ \A p \in Procs :
          pc[p] \in ProjectLoopOps =>
             LET v == frame[p].items[frame[p].i]
             IN  /\ v.Spec.ProjectName[1] = clusterName
                 /\ v.Spec.ProjectName = frame[p].projectID
                 /\ CurrentRuleKey(p) \in OwnedKeys("migrate-rule-")
                 /\ CurrentGroupKey(p) \in OwnedKeys("migrate-group-")
    /\ DOMAIN projectAlertRules \subseteq OwnedKeys("migrate-rule-")
    /\ DOMAIN projectAlertGroups \subseteq OwnedKeys("migrate-group-")

\* C21 witness: a call has migrated the project alerts, one of this cluster and one
\* of another cluster; one rule and one group were written
C21_Witness ==
    \E p \in Procs :
       /\ Succeeded(p)
       /\ "createProjectGroup" \in OpsOf(p)
       /\ Len(oldProjectAlerts) = 2
       /\ oldProjectAlerts[1].Spec.ProjectName = <<"c-other", "p-3">>
       /\ oldProjectAlerts[2].Spec.ProjectName = <<"local", "p-2">>
       /\ DOMAIN projectAlertRules = {<<"p-2", "migrate-rule-low-mem">>}
       /\ DOMAIN projectAlertGroups = {<<"p-2", "migrate-group-low-mem">>}

\* the step is the return of a call of p that has updated the application
UpdatedAndReturned(p) ==
    /\ pc[p] = "updateApp"
    /\ pc'[p] = "done"
    /\ result'[p].err = NoError
    /\ ~result'[p].panic

\* C22: the application record changes only in the step by which a call returns
\* its version after the update, so a call that returns an error leaves the record
\* it fetched as it is in the store; a step of a call changes nothing else of the
\* store than rules, groups and the set of namespaces.
C22_FailedUpgradeKeepsApp ==
    /\ [](\A p \in Procs :
             (Done(p) /\ result[p].err # NoError /\ frame[p].app # Nil) =>
                /\ KeyOf(frame[p].app[1]) \in DOMAIN apps
                /\ apps[KeyOf(frame[p].app[1])] = frame[p].app[1])
    /\ [][/\ apps' # apps => \E p \in Procs : UpdatedAndReturned(p)
          /\ (\E p \in Procs : pc'[p] # pc[p]) =>
                UNCHANGED <<oldClusterAlerts, oldProjectAlerts, templates>>]_vars

\* C22 witness: a call has migrated a cluster alert and deleted the namespace, then
\* returned an error because the catalog was not ready; the application is at the
\* old version
C22_Witness ==
    \E p \in Procs :
       /\ Done(p)
       /\ result[p].err = "catalog not ready"
       /\ "createClusterGroup" \in OpsOf(p)
       /\ clusterAlertRules # <<>>
       /\ "cattle-alerting" \notin namespaces
       /\ apps[<<systemProjectName, appName>>].Spec.ExternalID.version = "0.1.0"
       /\ apps[<<systemProjectName, appName>>].Spec.Answers[1]["operator.enabled"] = "true"


\* the record new is the record old with the external id id and the answer
\* operator.enabled = "false", and nothing else changed
OnlyReferenceAndOperator(old, new, id) ==
    /\ new.ObjectMeta = old.ObjectMeta
    /\ new.Spec.ExternalID = id
    /\ new.Spec.Answers # Nil
    /\ DOMAIN new.Spec.Answers[1] = DOMAIN old.Spec.Answers[1] \cup {"operator.enabled"}
    /\ new.Spec.Answers[1]["operator.enabled"] = "false"
    /\ \A a \in DOMAIN old.Spec.Answers[1] \ {"operator.enabled"} :
          new.Spec.Answers[1][a] = old.Spec.Answers[1][a]
    /\ [new EXCEPT !.Spec.ExternalID = old.Spec.ExternalID,
                   !.Spec.Answers = old.Spec.Answers] = old

\* C23: the update step writes the fetched record changed in the external id (the
\* new one) and in operator.enabled ("false") only, and leaves the fetched record
\* of the call as it was; a call that follows a call which updated the application
\* finds its copy equal to the record it fetched, never reaches the readiness
\* checks and makes no update.
C23_UpdateChangesTwoFields ==
    /\ [][\A p \in Procs :
             UpdatedAndReturned(p) =>
                LET old == frame[p].app[1]
                    new == apps'[KeyOf(old)]
                IN  /\ apps[KeyOf(old)] = old
                    /\ new # old
                    /\ OnlyReferenceAndOperator(old, new, frame[p].newExternalID[1])
                    /\ frame'[p].app = frame[p].app
                    /\ \A k \in DOMAIN apps' \ {KeyOf(old)} :
                          k \in DOMAIN apps /\ apps'[k] = apps[k]]_vars
    /\ [](\A p \in Procs :
             (atCall[p].updated /\ pc[p] # "idle") =>
                /\ pc[p] \notin {"getCluster", "getCatalog", "updateApp"}
                /\ "updateApp" \notin OpsOf(p)
                /\ ("getApp" \in OpsOf(p) /\ frame[p].app # Nil) =>
                      /\ frame[p].newApp = frame[p].app
                      /\ apps[KeyOf(frame[p].app[1])] = frame[p].app[1])

\* C23 witness: the first call updated the application, which had the answer
\* exporter.enabled; the second call fetched it, found no difference and returned
\* the new version
C23_Witness ==
    \E p \in Procs :
       /\ atCall[p].updated
       /\ Succeeded(p)
       /\ "getApp" \in OpsOf(p)
       /\ frame[p].app # Nil
       /\ frame[p].newApp = frame[p].app
       /\ result[p].version = ResolvedVersion
       /\ apps[<<systemProjectName, appName>>].Spec.Answers[1]["exporter.enabled"] = "true"
       /\ apps[<<systemProjectName, appName>>].Spec.Answers[1]["operator.enabled"] = "false"


\* the call of p returned an error because the cluster or the catalog was not ready
NotReady(p) == Done(p) /\ result[p].err \in {"cluster not ready", "catalog not ready"}

\* the call of p returned the new version and the application is at the desired
\* state
UpgradedBy(p) ==
    /\ Succeeded(p)
    /\ result[p].version = ResolvedVersion
    /\ <<systemProjectName, appName>> \in DOMAIN apps
    /\ Desired(apps[<<systemProjectName, appName>>], ExternalIDOf(ResolvedVersion[3]))

\* the rules and groups in the store are among those of the translation: at most one
\* rule and one group for a legacy alert
NoDuplicates ==
    /\ DOMAIN clusterAlertRules \subseteq DOMAIN TranslatedStores[1]
    /\ DOMAIN clusterAlertGroups \subseteq DOMAIN TranslatedStores[2]
    /\ DOMAIN projectAlertRules \subseteq DOMAIN TranslatedStores[3]
    /\ DOMAIN projectAlertGroups \subseteq DOMAIN TranslatedStores[4]

\* C24: when the caller re-invokes Upgrade after every error and the listers again
\* and again hold a ready cluster and a ready catalog while no store call fails, a
\* call that failed because the cluster or the catalog was not ready is followed by
\* a call that returns the new version with the application at the desired state;
\* no call, first or repeated, returns an error of the migration, and the store
\* never holds more than one rule and one group for a legacy alert.
C24_RetryReachesDesired ==
    /\ \A p \in Callers : NotReady(p) ~> UpgradedBy(p)
    /\ [](\A p \in Callers :
             /\ result[p].err \notin MigrationErrors
             /\ ~result[p].panic \/ ops[p][Len(ops[p])] \notin MigrationOps
             /\ NoDuplicates)

\* C24 witness: a re-invocation has repeated the migration (it updated a rule the
\* first call created), passed both readiness checks and updated the application
C24_Witness ==
    \E p \in Callers :
       /\ UpgradedBy(p)
       /\ "updateClusterRule" \in OpsOf(p)
       /\ "createClusterGroup" \in OpsOf(p)
       /\ "updateApp" \in OpsOf(p)
       /\ DOMAIN clusterAlertRules = DOMAIN TranslatedStores[1]
       /\ clusterAlertRules # <<>>

====
